---- MODULE Spec2Model ----
(***************************************************************************)
(* Model of hypercloud's Archiver (lib/archiver.js): the registry of       *)
(* resident archives, the in-flight load promises, the per-peer            *)
(* replication streams with their handshake timers, and archive close.    *)
(*                                                                         *)
(* JavaScript runs one macrotask at a time and drains the microtask queue  *)
(* before the next one, so every action below is one macrotask (an API     *)
(* call's synchronous part, or one I/O / timer / stream callback) together *)
(* with the promise reactions it triggers.                                 *)
(*                                                                         *)
(* The module also covers the startup enumeration of lib/index.js and      *)
(* UsersDB's addArchive / removeArchive / put (lib/dbs/users.js) with the   *)
(* keyed locks they take.                                                  *)
(***************************************************************************)
EXTENDS Integers, Sequences, FiniteSets, TLC

\* ---------------------------------------------------------------- bounds
\* Each specification lets the callers and peers make a bounded number of
\* requests: loadArchive, closeArchive and closeAllArchives calls, and peer
\* connections.
MaxOps == 3        \* Spec: requests on two archive keys
StreamOps == 5     \* StreamSpec: one load, then connections and closes
StartOps == 2      \* StartSpec: swarm errors during startup
LockOps == 2       \* LockSpec: addArchive and removeArchive calls on two users
FifoOps == 3       \* FifoSpec: addArchive and removeArchive calls on one user
AdminOps == 2      \* AdminSpec: admin and addArchive / removeArchive calls on one user
ReleaseOps == 2    \* ReleaseSpec: calls that take a lock, on one user

Keys == {"aa", "bb"}

\* the ids of the user records in accountsDB
Users == {"u1", "u2"}

\* the stored record of a registered user: UsersDB.defaults with the fields
\* the operations below read or write
defaults(id) ==
  [id |-> id, username |-> "null", email |-> "null", scopes |-> <<"user">>,
   suspension |-> "null", archives |-> <<>>]

\* what accountsDB.get gives getByID for an id that is not stored: null
Null == defaults("null")

\* what callers pass as a key: a buffer or a string, both naming a hex key
KeyInputs == [form : {"buffer", "string"}, hex : Keys]

\* datEncoding.toStr: both forms are normalised to the hex string
toStr(input) == input.hex

VARIABLES
  archives,       \* this.archives: key -> handle id, 0 when the key is absent
  loadPromises,   \* this.loadPromises: key -> id of the cached promise, 0 when absent
  calls,          \* loadArchive invocations, in call order
  loads,          \* _loadArchiveInner runs; load i constructed archive handle i
  streams,        \* replication streams, in creation order
  closes,         \* closeArchive invocations, in call order
  closeAlls,      \* closeAllArchives invocations
  syncClose,      \* whether stream.destroy() emits 'close' before returning
  listPos,        \* how many records archivesDB.list() has emitted at startup
  accountsDB,     \* UsersDB's accountsDB: user id -> stored user record
  locks,          \* the keyed locks of lib/lock, created on first use
  ops             \* UsersDB operations, in call order

\* the Archiver's state
archiverVars == <<archives, loadPromises, calls, loads, streams, closes, closeAlls, syncClose>>

\* the UsersDB's state
dbVars == <<accountsDB, locks, ops>>

vars == <<archives, loadPromises, calls, loads, streams, closes, closeAlls, syncClose,
          listPos, accountsDB, locks, ops>>

\* the swarm errors logged for the archives 1..p
RECURSIVE SwarmErrors(_)
SwarmErrors(p) == IF p = 0 THEN 0 ELSE loads[p].swarmErrors + SwarmErrors(p - 1)

\* the requests made and the swarm errors met so far
Ops == Len(calls) + Cardinality({c \in 1..Len(closes) : closes[c].group = 0})
         + Len(closeAlls) + Len(streams) + SwarmErrors(Len(loads))

CallIds == 1..Len(calls)
LoadIds == 1..Len(loads)
StreamIds == 1..Len(streams)
CloseIds == 1..Len(closes)
CloseAllIds == 1..Len(closeAlls)

\* ------------------------------------------------------------ constructor
Init ==
  /\ archives = [k \in Keys |-> 0]
  /\ loadPromises = [k \in Keys |-> 0]
  /\ calls = <<>>
  /\ loads = <<>>
  /\ streams = <<>>
  /\ closes = <<>>
  /\ closeAlls = <<>>
  /\ syncClose \in BOOLEAN
  /\ listPos = 0
  /\ accountsDB = [u \in Users |-> defaults(u)]
  /\ locks = [key \in {} |-> 0]
  /\ ops = <<>>

\* ------------------------------------------------------------- accessors
getArchive(key) == archives[key]

isLoadingArchive(key) == loadPromises[key] # 0

\* --------------------------------------------------------------- helpers
\* the calls still waiting for a result
Unsettled(c) == calls[c].st \in {"mkdirp", "pending"}

\* a loadArchive that never looks at this.archives
CallRecordNoFallback(key) ==
  [key |-> key, st |-> IF loadPromises[key] # 0 THEN "pending" ELSE "mkdirp",
   load |-> loadPromises[key], result |-> 0, joined |-> loadPromises[key] # 0,
   conc |-> {c \in CallIds : calls[c].key = key /\ Unsettled(c)},
   closing |-> FALSE]

\* loadArchive up to its first suspension: the resident handle, the cached
\* promise, or the start of mkdirp. The record also keeps what the call met:
\* joined, whether it was handed a cached promise; conc, the earlier calls
\* for the key that had not settled yet; and closing, whether the resident
\* handle it was given was being closed.
CallRecord(key) ==
  LET conc == {c \in CallIds : calls[c].key = key /\ Unsettled(c)} IN
  IF archives[key] # 0
    THEN [key |-> key, st |-> "resolved", load |-> 0, result |-> archives[key],
          joined |-> FALSE, conc |-> conc,
          closing |-> loads[archives[key]].storage # "open"]
  ELSE IF loadPromises[key] # 0
    THEN [key |-> key, st |-> "pending", load |-> loadPromises[key], result |-> 0,
          joined |-> TRUE, conc |-> conc, closing |-> FALSE]
  ELSE [key |-> key, st |-> "mkdirp", load |-> 0, result |-> 0,
        joined |-> FALSE, conc |-> conc, closing |-> FALSE]

LoadArchive(input) ==
  /\ calls' = Append(calls, CallRecord(toStr(input)))
  /\ UNCHANGED <<archives, loadPromises, loads, streams, closes, closeAlls, syncClose, listPos, dbVars>>

\* ---------------------------------------------------------------- startup
\* the records archivesDB holds when the process starts, in list() order
Listed == <<"aa", "bb">>

\* a list() stream that ends at the first load that failed
MoreRecordsUntilFailure(pos) ==
  pos < Len(Listed) /\ \A c \in CallIds : calls[c].st # "rejected"

\* the list() stream has another record to emit; no listener looks at the
\* promises of the loads started so far
MoreRecords(pos) == pos < Len(Listed)

\* archivesDB.list().on('data', ({key}) => { this.archiver.loadArchive(key) })
ListData ==
  /\ MoreRecords(listPos)
  /\ listPos' = listPos + 1
  /\ calls' = Append(calls, CallRecord(Listed[listPos + 1]))
  /\ UNCHANGED <<archives, loadPromises, loads, streams, closes, closeAlls, syncClose, dbVars>>

\* ------------------------------------------------------------------ load
\* the archive handle hyperdrive() constructs, before it is ready
NewArchive(key) ==
  [key |-> key, st |-> "opening", swarm |-> "none", storage |-> "open",
   replicationStreams |-> <<>>, swarmCloses |-> 0, storageCloses |-> 0,
   swarmErrors |-> 0]

\* the promise cached for a key once mkdirp is done
CachePromise(key, p) == [loadPromises EXCEPT ![key] = p]

\* mkdirp resolved: _loadArchiveInner constructs the archive and its promise
\* is cached, whatever was cached before
MkdirpDone(c) ==
  /\ calls[c].st = "mkdirp"
  /\ LET key == calls[c].key
         p == Len(loads) + 1 IN
     /\ loads' = Append(loads, NewArchive(key))
     /\ loadPromises' = CachePromise(key, p)
     /\ calls' = [calls EXCEPT ![c].st = "pending", ![c].load = p]
  /\ UNCHANGED <<archives, streams, closes, closeAlls, syncClose, listPos, dbVars>>

\* mkdirp rejected: the call rejects before any archive is constructed
MkdirpFail(c) ==
  /\ calls[c].st = "mkdirp"
  /\ calls' = [calls EXCEPT ![c].st = "rejected"]
  /\ UNCHANGED <<archives, loadPromises, loads, streams, closes, closeAlls, syncClose, listPos, dbVars>>

\* `clear` that forgets to delete the promise
clearKeeps(lp, key) == lp

\* the reaction `clear`: delete this.loadPromises[key]
clear(lp, key) == [lp EXCEPT ![key] = 0]

\* the reaction that saves the archive instance
SaveArchive(ar, key, archive) == [ar EXCEPT ![key] = archive]

\* every call awaiting promise p settles with it
SettleCalls(p, st, result) ==
  [c \in CallIds |->
     IF calls[c].st = "pending" /\ calls[c].load = p
       THEN [calls[c] EXCEPT !.st = st, !.result = result]
       ELSE calls[c]]

\* archive.ready(cb) called back without error: the swarm is joined, the
\* promise resolves, `clear` runs and then the archive is saved
LoadReady(p) ==
  /\ loads[p].st = "opening"
  /\ loads' = [loads EXCEPT ![p].st = "ready", ![p].swarm = "joined"]
  /\ loadPromises' = clear(loadPromises, loads[p].key)
  /\ archives' = SaveArchive(archives, loads[p].key, p)
  /\ calls' = SettleCalls(p, "resolved", p)
  /\ UNCHANGED <<streams, closes, closeAlls, syncClose, listPos, dbVars>>

\* archive.ready(cb) called back with an error: the promise rejects and only
\* `clear` runs
LoadFail(p) ==
  /\ loads[p].st = "opening"
  /\ loads' = [loads EXCEPT ![p].st = "failed"]
  /\ loadPromises' = clear(loadPromises, loads[p].key)
  /\ calls' = SettleCalls(p, "rejected", 0)
  /\ UNCHANGED <<archives, streams, closes, closeAlls, syncClose, listPos, dbVars>>

\* ---------------------------------------------------- replication streams
\* rs.indexOf(stream), counted from 1; 0 when the stream is not in rs
IndexOf(rs, s) ==
  IF \E i \in 1..Len(rs) : rs[i] = s
    THEN CHOOSE i \in 1..Len(rs) : rs[i] = s /\ \A j \in 1..(i - 1) : rs[j] # s
    ELSE 0

\* rs.splice(i, 1)
Splice(rs, i) == SubSeq(rs, 1, i - 1) \o SubSeq(rs, i + 1, Len(rs))

\* a 'close' handler that empties the list
OnCloseClears(rs, s) == <<>>

\* a 'close' handler that leaves the stream in the list
OnCloseKeeps(rs, s) == rs

\* the once('close') handler: take the stream out of its archive's list
OnClose(rs, s) == IF IndexOf(rs, s) # 0 THEN Splice(rs, IndexOf(rs, s)) ELSE rs

\* archive.replicationStreams.push(stream)
Push(rs, s) == Append(rs, s)

\* The stream emits 'close'. w is the pair of stream table S and archive table L.
EmitClose(w, s) ==
  IF w.S[s].closed THEN w
  ELSE [w EXCEPT !.S[s].closed = TRUE,
                 !.L[w.S[s].archive].replicationStreams = OnClose(@, s)]

\* ----------------------------------------------------------------- swarm
\* a swarm 'error' listener that gives the archive up
OnSwarmErrorFails(L, p) == [L EXCEPT ![p].st = "failed", ![p].swarmErrors = @ + 1]

\* swarm.on('error', err => debug('Swarm error for', key, err)): a log line
OnSwarmError(L, p) == [L EXCEPT ![p].swarmErrors = @ + 1]

\* the swarm of archive p emits 'error': the join or the listening failed
SwarmError(p) ==
  /\ loads[p].swarm # "none"
  /\ loads' = OnSwarmError(loads, p)
  /\ UNCHANGED <<archives, loadPromises, calls, streams, closes, closeAlls, syncClose, listPos, dbVars>>

\* ------------------------------------------------------ handshake timer
\* a handshake listener that leaves the timer armed
clearTimeoutKeeps(TO) == TO

\* the handshake listener: clearTimeout(TO)
clearTimeout(TO) == IF TO = "armed" THEN "cleared" ELSE TO

\* a destroy() that does nothing
destroyNothing(w, s, why) == w

\* stream.destroy(err): nothing on a destroyed stream; 'close' is emitted
\* before destroy returns or in a later callback
destroy(w, s, why) ==
  IF w.S[s].destroyed THEN w
  ELSE LET w1 == [w EXCEPT !.S[s].destroyed = TRUE, !.S[s].by = why] IN
       IF syncClose THEN EmitClose(w1, s) ELSE w1

\* the swarm's stream callback: a peer connected to archive p
Connection(p) ==
  /\ loads[p].swarm = "joined"
  /\ LET s == Len(streams) + 1 IN
     /\ streams' = Append(streams,
          [archive |-> p, destroyed |-> FALSE, closed |-> FALSE,
           handshake |-> FALSE, TO |-> "armed", by |-> "none"])
     /\ loads' = [loads EXCEPT ![p].replicationStreams = Push(@, s)]
  /\ UNCHANGED <<archives, loadPromises, calls, closes, closeAlls, syncClose, listPos, dbVars>>

\* the stream emits 'handshake' (a destroyed stream emits nothing more)
Handshake(s) ==
  /\ ~streams[s].destroyed
  /\ ~streams[s].handshake
  /\ streams' = [streams EXCEPT ![s].handshake = TRUE, ![s].TO = clearTimeout(@)]
  /\ UNCHANGED <<archives, loadPromises, calls, loads, closes, closeAlls, syncClose, listPos, dbVars>>

\* the setTimeout callback, HandshakeTimeout ms after the connection
TimeoutFired(s) ==
  /\ streams[s].TO = "armed"
  /\ LET w == destroy([S |-> [streams EXCEPT ![s].TO = "fired"], L |-> loads], s, "timeout") IN
     /\ streams' = w.S
     /\ loads' = w.L
  /\ UNCHANGED <<archives, loadPromises, calls, closes, closeAlls, syncClose, listPos, dbVars>>

\* the peer ends the connection, cleanly or with an error: 'close' is emitted
StreamEnd(s) ==
  /\ ~streams[s].destroyed
  /\ LET w == EmitClose([S |-> [streams EXCEPT ![s].destroyed = TRUE, ![s].by = "peer"],
                         L |-> loads], s) IN
     /\ streams' = w.S
     /\ loads' = w.L
  /\ UNCHANGED <<archives, loadPromises, calls, closes, closeAlls, syncClose, listPos, dbVars>>

\* the 'close' event of a destroyed stream, when destroy() did not emit it itself
CloseEvent(s) ==
  /\ streams[s].destroyed
  /\ ~streams[s].closed
  /\ LET w == EmitClose([S |-> streams, L |-> loads], s) IN
     /\ streams' = w.S
     /\ loads' = w.L
  /\ UNCHANGED <<archives, loadPromises, calls, closes, closeAlls, syncClose, listPos, dbVars>>

\* ------------------------------------------------------------------ close
\* archive.replicationStreams.forEach(s => s.destroy()): forEach visits the
\* indices 1..len of the array as it is when each index is reached, so an
\* element that a 'close' handler shifts down is passed over. fault = k > 0
\* makes the k-th destroy() call throw.
RECURSIVE ForEachDestroy(_, _, _, _, _)
ForEachDestroy(w, archive, k, len, fault) ==
  IF k > len THEN w
  ELSE IF k > Len(w.L[archive].replicationStreams)
    THEN ForEachDestroy(w, archive, k + 1, len, fault)
  ELSE IF k = fault THEN [w EXCEPT !.thrown = TRUE]
  ELSE ForEachDestroy(destroy(w, w.L[archive].replicationStreams[k], "closeArchive"),
                      archive, k + 1, len, fault)

\* archive.swarm.close(); fault = -1 makes it throw
SwarmClose(w, archive, fault) ==
  IF fault = -1
    THEN [w EXCEPT !.L[archive].swarmCloses = @ + 1, !.thrown = TRUE]
    ELSE [w EXCEPT !.L[archive].swarmCloses = @ + 1, !.L[archive].swarm = "closed"]

\* archive.close(resolve): storage close is started
StorageClose(w, archive) ==
  [w EXCEPT !.L[archive].storageCloses = @ + 1,
            !.L[archive].storage = IF @ = "open" THEN "closing" ELSE @]

\* a closeArchive that waits for a storage close whatever it finds
closeArchiveAwaits(w, key, fault, group) ==
  [S |-> w.S, L |-> w.L, thrown |-> FALSE,
   C |-> Append(w.C, [key |-> key, archive |-> archives[key], group |-> group,
                      during |-> loadPromises[key], st |-> "awaitClose"])]

\* closeArchive(key) up to its await. w holds the stream table S, the archive
\* table L, the closeArchive invocations C and the flag thrown; group is the
\* closeAllArchives invocation the call belongs to, 0 for a direct call, and
\* during is the load that was in flight for the key when the call was made.
closeArchive(w, key, fault, group) ==
  LET archive == archives[key]
      rec == [key |-> key, archive |-> archive, group |-> group,
              during |-> loadPromises[key]]
      done(v, st) == [S |-> v.S, L |-> v.L, thrown |-> FALSE,
                      C |-> Append(v.C, rec @@ [st |-> st])] IN
  IF archive = 0 THEN done(w, "resolved")
  ELSE LET w1 == ForEachDestroy(w, archive, 1, Len(w.L[archive].replicationStreams), fault) IN
       IF w1.thrown THEN done(w1, "rejected")
       ELSE LET w2 == SwarmClose(w1, archive, fault) IN
            IF w2.thrown THEN done(w2, "rejected")
            ELSE done(StorageClose(w2, archive), "awaitClose")

\* the faults a close of key can meet: none, a destroy() that throws, or a
\* swarm.close() that throws
Faults(key) ==
  IF archives[key] = 0 THEN {0}
  ELSE (-1)..Len(loads[archives[key]].replicationStreams)

World == [S |-> streams, L |-> loads, C |-> closes, thrown |-> FALSE]

CloseArchive(input, fault) ==
  /\ fault \in Faults(toStr(input))
  /\ LET w == closeArchive(World, toStr(input), fault, 0) IN
     /\ streams' = w.S
     /\ loads' = w.L
     /\ closes' = w.C
  /\ UNCHANGED <<archives, loadPromises, calls, closeAlls, syncClose, listPos, dbVars>>

\* delete this.archives[key]
DeleteArchive(ar, key) == [ar EXCEPT ![key] = 0]

\* the storage-close callback of closeArchive invocation c: the await ends
\* (resolve is called whether or not the callback carries an error) and the
\* key is deleted
StorageClosed(c, err) ==
  /\ closes[c].st = "awaitClose"
  /\ closes' = [closes EXCEPT ![c].st = "resolved"]
  /\ loads' = [loads EXCEPT ![closes[c].archive].storage =
                 IF err THEN "closeError" ELSE "closed"]
  /\ archives' = DeleteArchive(archives, closes[c].key)
  /\ UNCHANGED <<loadPromises, calls, streams, closeAlls, syncClose, listPos, dbVars>>

\* Object.keys(this.archives), as a sequence
RECURSIVE SeqOf(_)
SeqOf(S) == IF S = {} THEN <<>>
            ELSE LET x == CHOOSE x \in S : TRUE IN <<x>> \o SeqOf(S \ {x})

ObjectKeys == SeqOf({k \in Keys : archives[k] # 0})

\* keys.map(key => this.closeArchive(key))
RECURSIVE MapClose(_, _, _, _)
MapClose(w, keys, faults, group) ==
  IF keys = <<>> THEN w
  ELSE MapClose(closeArchive(w, Head(keys), faults[Head(keys)], group),
                Tail(keys), faults, group)

CloseAllArchives(faults) ==
  /\ \A k \in Keys : faults[k] \in Faults(k)
  /\ LET g == Len(closeAlls) + 1
         w == MapClose(World, ObjectKeys, faults, g) IN
     /\ streams' = w.S
     /\ loads' = w.L
     /\ closes' = w.C
     /\ closeAlls' = Append(closeAlls, [keys |-> {k \in Keys : archives[k] # 0}])
  /\ UNCHANGED <<archives, loadPromises, calls, syncClose, listPos, dbVars>>

\* the closeArchive invocations closeAllArchives invocation g made
Members(g) == {c \in CloseIds : closes[c].group = g}

\* Promise.all over the members' promises: rejected as soon as one of them is
\* rejected, resolved once all of them are resolved
PromiseAll(g) ==
  IF \E c \in Members(g) : closes[c].st = "rejected" THEN "rejected"
  ELSE IF \A c \in Members(g) : closes[c].st = "resolved" THEN "resolved"
  ELSE "pending"

\* the start of the process: the archives on record are loaded and their
\* swarms meet a bounded number of errors
StartNext ==
  \/ ListData
  \/ \E c \in CallIds : MkdirpDone(c)
  \/ \E c \in CallIds : MkdirpFail(c)
  \/ \E p \in LoadIds : LoadReady(p)
  \/ \E p \in LoadIds : LoadFail(p)
  \/ \E p \in LoadIds : SwarmErrors(Len(loads)) < StartOps /\ SwarmError(p)

StartSpec == Init /\ [][StartNext]_vars

\* ================================================================ UsersDB
\* lib/dbs/users.js: user records in accountsDB, changed under keyed locks.
\* Every action is one step of an operation between two awaits.
\* the optional name argument of addArchive
Names == {"undefined", "site"}

OpIds == 1..Len(ops)

\* ------------------------------------------------------------ keyed lock
\* One lock per key, made when the key is first used. A lock is free or
\* acquired; callers that find it acquired wait in arrival order. requests
\* and grants keep the order in which callers asked for and got the lock, and
\* an operation that had to wait keeps its place in the queue in behind.
NewLock == [acquired |-> FALSE, waiting |-> <<>>, requests |-> <<>>, grants |-> <<>>]

LockOf(L, key) == IF key \in DOMAIN L THEN L[key] ELSE NewLock

SetLock(L, key, l) == [k \in (DOMAIN L) \cup {key} |-> IF k = key THEN l ELSE L[k]]

\* the operation in the critical section of key, 0 when the lock is free
Holder(L, key) ==
  LET l == LockOf(L, key) IN
  IF l.acquired THEN l.grants[Len(l.grants)] ELSE 0

\* the operation continues after its `await lock(key)`
Resume(d, o) ==
  IF d.O[o].pc = "waitUpdate"
    THEN [d EXCEPT !.O[o].pc = "getByID"]
  ELSE IF d.O[o].kind = "del"
    THEN [d EXCEPT !.O[o].pc = "del"]
  ELSE [d EXCEPT !.O[o].pc = "put"]

\* a release that resumes the waiter that arrived last
NextWaiterLast(waiting) == Len(waiting)

\* the waiter a release resumes: the one that arrived first
NextWaiter(waiting) == 1

\* lock(key) called by operation o: granted at once when the lock is free
lock(d, key, o) ==
  LET l == LockOf(d.L, key) IN
  IF l.acquired
    THEN [d EXCEPT !.L = SetLock(d.L, key,
            [l EXCEPT !.waiting = Append(@, o), !.requests = Append(@, o)]),
                   !.O[o].behind = Len(l.waiting) + 1]
    ELSE Resume([d EXCEPT !.L = SetLock(d.L, key,
            [l EXCEPT !.acquired = TRUE, !.requests = Append(@, o),
                      !.grants = Append(@, o)])], o)

\* release(): hand the lock to a waiter, or free it
release(d, key) ==
  LET l == d.L[key] IN
  IF l.waiting = <<>>
    THEN [d EXCEPT !.L[key].acquired = FALSE]
    ELSE LET i == NextWaiter(l.waiting) IN
         Resume([d EXCEPT !.L[key].waiting = Splice(l.waiting, i),
                          !.L[key].grants = Append(@, l.waiting[i])],
                l.waiting[i])

\* ------------------------------------------------------------ operations
Database == [db |-> accountsDB, L |-> locks, O |-> ops]

\* a lock key that names the archive instead of the user
UpdateKeyOfArchive(op) == <<"users:update", op.key>>

\* 'users:update:' + userId
UpdateKey(op) == <<"users:update", op.userId>>

\* 'users:write:' + record.id
WriteKey(record) == <<"users:write", record.id>>

\* userRecord.archives.findIndex(a => a.key === archiveKey), 0 for -1
FindIndex(as, archiveKey) ==
  IF \E i \in 1..Len(as) : as[i].key = archiveKey
    THEN CHOOSE i \in 1..Len(as) :
           as[i].key = archiveKey /\ \A j \in 1..(i - 1) : as[j].key # archiveKey
    ELSE 0

\* addArchive's change: push the archive, or set the name of the one found
AddTo(userRecord, archiveKey, name) ==
  LET i == FindIndex(userRecord.archives, archiveKey) IN
  IF i = 0
    THEN [userRecord EXCEPT
            !.archives = Append(@, [key |-> archiveKey,
                                    name |-> IF name = "undefined" THEN "null" ELSE name])]
  ELSE IF name # "undefined"
    THEN [userRecord EXCEPT !.archives[i].name = name]
  ELSE userRecord

\* removeArchive's change: userRecord.archives.splice(index, 1)
RemoveFrom(userRecord, archiveKey) ==
  [userRecord EXCEPT !.archives = Splice(@, FindIndex(@, archiveKey))]

\* the request body of an operation that takes none
NoBody == [given |-> {}, username |-> "null", email |-> "null", scopes |-> <<>>]

\* the call itself: everything up to `await lock('users:update:' + userId)`
Call(kind, userId, archiveKey, name) ==
  LET o == Len(ops) + 1
      op == [kind |-> kind, userId |-> userId, key |-> archiveKey, name |-> name,
             body |-> NoBody, pc |-> "waitUpdate", userRecord |-> Null,
             behind |-> 0]
      d == lock([Database EXCEPT !.O = Append(ops, op)], UpdateKey(op), o)
  IN /\ accountsDB' = d.db
     /\ locks' = d.L
     /\ ops' = d.O
     /\ UNCHANGED <<archiverVars, listPos>>

AddArchive(userId, archiveKey, name) == Call("addArchive", userId, archiveKey, name)

RemoveArchive(userId, archiveKey) == Call("removeArchive", userId, archiveKey, "undefined")

\* an addArchive / removeArchive that settles without its finally block
FinishKeepsLock(d, o, pc) == [d EXCEPT !.O[o].pc = pc]

\* the operation settles: addArchive and removeArchive end inside their try
\* block and run finally { release() } first, the others hold no update lock
Finish(d, o, pc) ==
  IF d.O[o].kind \in {"addArchive", "removeArchive"}
    THEN release([d EXCEPT !.O[o].pc = pc], UpdateKey(d.O[o]))
    ELSE [d EXCEPT !.O[o].pc = pc]

\* put(record) up to `await lock('users:write:' + record.id)`
put(d, o, record) ==
  lock([d EXCEPT !.O[o].userRecord = record, !.O[o].pc = "waitWrite"],
       WriteKey(record), o)

\* `await this.getByID(userId)` returns (userRecord.archives throws on null),
\* then the change and the call of put
GetByID(o, err) ==
  /\ ops[o].pc = "getByID"
  /\ LET op == ops[o]
         userRecord == accountsDB[op.userId]
         d == IF err \/ userRecord = Null THEN Finish(Database, o, "rejected")
              ELSE IF op.kind = "addArchive"
                THEN put(Database, o, AddTo(userRecord, op.key, op.name))
              ELSE IF FindIndex(userRecord.archives, op.key) = 0
                THEN Finish(Database, o, "done")
              ELSE put(Database, o, RemoveFrom(userRecord, op.key))
     IN /\ accountsDB' = d.db
        /\ locks' = d.L
        /\ ops' = d.O
  /\ UNCHANGED <<archiverVars, listPos>>

\* `await this.accountsDB.put(record.id, record)` returns
Put(o, err) ==
  /\ ops[o].pc = "put"
  /\ LET record == ops[o].userRecord
         d == IF err
                THEN Finish(release(Database, WriteKey(record)), o, "rejected")
                ELSE [Database EXCEPT !.db[record.id] = record,
                                      !.O[o].pc = "updateIndexes"]
     IN /\ accountsDB' = d.db
        /\ locks' = d.L
        /\ ops' = d.O
  /\ UNCHANGED <<archiverVars, listPos>>

\* `await this.indexer.updateIndexes(record)` returns: put's finally, then
\* the caller's finally
UpdateIndexes(o, err) ==
  /\ ops[o].pc = "updateIndexes"
  /\ LET record == ops[o].userRecord
         d == Finish(release(Database, WriteKey(record)), o,
                     IF err THEN "rejected" ELSE "done")
     IN /\ accountsDB' = d.db
        /\ locks' = d.L
        /\ ops' = d.O
  /\ UNCHANGED <<archiverVars, listPos>>

\* UsersDB with a bounded number of calls
LockNext ==
  \/ \E u \in Users, k \in Keys, n \in Names : Len(ops) < LockOps /\ AddArchive(u, k, n)
  \/ \E u \in Users, k \in Keys : Len(ops) < LockOps /\ RemoveArchive(u, k)
  \/ \E o \in OpIds, err \in BOOLEAN : GetByID(o, err)
  \/ \E o \in OpIds, err \in BOOLEAN : Put(o, err)
  \/ \E o \in OpIds, err \in BOOLEAN : UpdateIndexes(o, err)

LockSpec == Init /\ [][LockNext]_vars

\* UsersDB with every call made for one user and one archive, so that calls
\* queue up on one lock
FifoUsers == {"u1"}

FifoKeys == {"aa"}

FifoNext ==
  \/ \E u \in FifoUsers, k \in FifoKeys, n \in Names :
       Len(ops) < FifoOps /\ AddArchive(u, k, n)
  \/ \E u \in FifoUsers, k \in FifoKeys : Len(ops) < FifoOps /\ RemoveArchive(u, k)
  \/ \E o \in OpIds, err \in BOOLEAN : GetByID(o, err)
  \/ \E o \in OpIds, err \in BOOLEAN : Put(o, err)
  \/ \E o \in OpIds, err \in BOOLEAN : UpdateIndexes(o, err)

FifoSpec == Init /\ [][FifoNext]_vars

\* ---------------------------------------------------------------- del
\* del(record) up to `await lock('users:write:' + record.id)`
Del(userId) ==
  LET o == Len(ops) + 1
      op == [kind |-> "del", userId |-> userId, key |-> "null", name |-> "undefined",
             body |-> NoBody, pc |-> "waitWrite", userRecord |-> defaults(userId),
             behind |-> 0]
      d == lock([Database EXCEPT !.O = Append(ops, op)], WriteKey(op.userRecord), o)
  IN /\ accountsDB' = d.db
     /\ locks' = d.L
     /\ ops' = d.O
     /\ UNCHANGED <<archiverVars, listPos>>

\* `await this.accountsDB.del(record.id)` returns
DelDone(o, err) ==
  /\ ops[o].pc = "del"
  /\ LET record == ops[o].userRecord
         d == IF err
                THEN Finish(release(Database, WriteKey(record)), o, "rejected")
                ELSE [Database EXCEPT !.db[record.id] = Null,
                                      !.O[o].pc = "removeIndexes"]
     IN /\ accountsDB' = d.db
        /\ locks' = d.L
        /\ ops' = d.O
  /\ UNCHANGED <<archiverVars, listPos>>

\* `await this.indexer.removeIndexes(record)` returns, then del's finally
RemoveIndexes(o, err) ==
  /\ ops[o].pc = "removeIndexes"
  /\ LET d == Finish(release(Database, WriteKey(ops[o].userRecord)), o,
                     IF err THEN "rejected" ELSE "done")
     IN /\ accountsDB' = d.db
        /\ locks' = d.L
        /\ ops' = d.O
  /\ UNCHANGED <<archiverVars, listPos>>

\* --------------------------------------------------------------- AdminAPI
\* lib/apis/admin.js: updateUser, suspendUser and unsuspendUser fetch the
\* record, change it and put it.
\* the request bodies of updateUser: given names the fields that are defined
Bodies ==
  {[given |-> {"username"}, username |-> "bob", email |-> "null", scopes |-> <<>>],
   [given |-> {"scopes"}, username |-> "null", email |-> "null",
    scopes |-> <<"user", "admin:users">>]}

\* updateUser's change
Update(user, body) ==
  [user EXCEPT
     !.username = IF "username" \in body.given THEN body.username ELSE @,
     !.email = IF "email" \in body.given THEN body.email ELSE @,
     !.scopes = IF "scopes" \in body.given THEN body.scopes ELSE @]

\* suspendUser's change, for a request without a reason
Suspend(user) ==
  [user EXCEPT
     !.scopes = IF IndexOf(@, "user") # 0 THEN Splice(@, IndexOf(@, "user")) ELSE @,
     !.suspension = "true"]

\* unsuspendUser's change
Unsuspend(user) ==
  [user EXCEPT
     !.scopes = IF IndexOf(@, "user") = 0 THEN Append(@, "user") ELSE @,
     !.suspension = "null"]

\* an admin request up to `await this._getUser(req.params.id)`
AdminCall(kind, userId, body) ==
  /\ ops' = Append(ops,
       [kind |-> kind, userId |-> userId, key |-> "null", name |-> "undefined",
        body |-> body, pc |-> "_getUser", userRecord |-> Null, behind |-> 0])
  /\ UNCHANGED <<accountsDB, locks, archiverVars, listPos>>

UpdateUser(userId, body) == AdminCall("updateUser", userId, body)

SuspendUser(userId) == AdminCall("suspendUser", userId, NoBody)

UnsuspendUser(userId) == AdminCall("unsuspendUser", userId, NoBody)

\* `await this._getUser(id)` returns the record (or throws: an id that is not
\* stored is no username and no email either), then the change and the call
\* of usersDB.put(user)
GetUser(o, err) ==
  /\ ops[o].pc = "_getUser"
  /\ LET op == ops[o]
         user == accountsDB[op.userId]
         d == IF err \/ user = Null THEN Finish(Database, o, "rejected")
              ELSE IF op.kind = "updateUser" THEN put(Database, o, Update(user, op.body))
              ELSE IF op.kind = "suspendUser" THEN put(Database, o, Suspend(user))
              ELSE put(Database, o, Unsuspend(user))
     IN /\ accountsDB' = d.db
        /\ locks' = d.L
        /\ ops' = d.O
  /\ UNCHANGED <<archiverVars, listPos>>

\* the admin API and addArchive / removeArchive on one user
AdminNext ==
  \/ \E u \in FifoUsers, k \in FifoKeys, n \in Names :
       Len(ops) < AdminOps /\ AddArchive(u, k, n)
  \/ \E u \in FifoUsers, k \in FifoKeys : Len(ops) < AdminOps /\ RemoveArchive(u, k)
  \/ \E u \in FifoUsers, body \in Bodies : Len(ops) < AdminOps /\ UpdateUser(u, body)
  \/ \E u \in FifoUsers : Len(ops) < AdminOps /\ SuspendUser(u)
  \/ \E u \in FifoUsers : Len(ops) < AdminOps /\ UnsuspendUser(u)
  \/ \E o \in OpIds, err \in BOOLEAN : GetByID(o, err)
  \/ \E o \in OpIds, err \in BOOLEAN : GetUser(o, err)
  \/ \E o \in OpIds, err \in BOOLEAN : Put(o, err)
  \/ \E o \in OpIds, err \in BOOLEAN : UpdateIndexes(o, err)

AdminSpec == Init /\ [][AdminNext]_vars

\* the steps in which an operation in progress goes on
Step ==
  \/ \E o \in OpIds, err \in BOOLEAN : GetByID(o, err)
  \/ \E o \in OpIds, err \in BOOLEAN : GetUser(o, err)
  \/ \E o \in OpIds, err \in BOOLEAN : Put(o, err)
  \/ \E o \in OpIds, err \in BOOLEAN : UpdateIndexes(o, err)
  \/ \E o \in OpIds, err \in BOOLEAN : DelDone(o, err)
  \/ \E o \in OpIds, err \in BOOLEAN : RemoveIndexes(o, err)

\* the callers of the locks on one user: addArchive, removeArchive, del, and
\* put called on its own (by suspendUser)
ReleaseNext ==
  \/ \E u \in FifoUsers, k \in FifoKeys, n \in Names :
       Len(ops) < ReleaseOps /\ AddArchive(u, k, n)
  \/ \E u \in FifoUsers, k \in FifoKeys : Len(ops) < ReleaseOps /\ RemoveArchive(u, k)
  \/ \E u \in FifoUsers : Len(ops) < ReleaseOps /\ Del(u)
  \/ \E u \in FifoUsers : Len(ops) < ReleaseOps /\ SuspendUser(u)
  \/ \E o \in OpIds, err \in BOOLEAN : GetByID(o, err)
  \/ \E o \in OpIds, err \in BOOLEAN : GetUser(o, err)
  \/ \E o \in OpIds, err \in BOOLEAN : Put(o, err)
  \/ \E o \in OpIds, err \in BOOLEAN : UpdateIndexes(o, err)
  \/ \E o \in OpIds, err \in BOOLEAN : DelDone(o, err)
  \/ \E o \in OpIds, err \in BOOLEAN : RemoveIndexes(o, err)

\* every database operation that was started calls back
ReleaseSpec == Init /\ [][ReleaseNext]_vars /\ WF_vars(Step)


\* ------------------------------------------------------- specifications
\* every operation of the Archiver
Next ==
  \/ \E input \in KeyInputs : Ops < MaxOps /\ LoadArchive(input)
  \/ \E c \in CallIds : MkdirpDone(c)
  \/ \E c \in CallIds : MkdirpFail(c)
  \/ \E p \in LoadIds : LoadReady(p)
  \/ \E p \in LoadIds : LoadFail(p)
  \/ \E p \in LoadIds : Ops < MaxOps /\ SwarmError(p)
  \/ \E p \in LoadIds : Ops < MaxOps /\ Connection(p)
  \/ \E s \in StreamIds : Handshake(s)
  \/ \E s \in StreamIds : TimeoutFired(s)
  \/ \E s \in StreamIds : StreamEnd(s)
  \/ \E s \in StreamIds : CloseEvent(s)
  \/ \E input \in KeyInputs, fault \in (-1)..Len(streams) :
       Ops < MaxOps /\ CloseArchive(input, fault)
  \/ \E c \in CloseIds, err \in BOOLEAN : StorageClosed(c, err)
  \/ \E faults \in [Keys -> (-1)..Len(streams)] :
       /\ Ops < MaxOps
       /\ CloseAllArchives(faults)

Spec == Init /\ [][Next]_vars

\* one archive, loaded once, with its peer connections and its closes
StreamInputs == {input \in KeyInputs : toStr(input) = "aa"}

StreamNext ==
  \/ \E input \in StreamInputs : calls = <<>> /\ LoadArchive(input)
  \/ \E c \in CallIds : MkdirpDone(c)
  \/ \E c \in CallIds : MkdirpFail(c)
  \/ \E p \in LoadIds : LoadReady(p)
  \/ \E p \in LoadIds : LoadFail(p)
  \/ \E p \in LoadIds : Ops < StreamOps /\ Connection(p)
  \/ \E s \in StreamIds : Handshake(s)
  \/ \E s \in StreamIds : TimeoutFired(s)
  \/ \E s \in StreamIds : StreamEnd(s)
  \/ \E s \in StreamIds : CloseEvent(s)
  \/ \E input \in StreamInputs, fault \in (-1)..Len(streams) :
       Ops < StreamOps /\ CloseArchive(input, fault)
  \/ \E c \in CloseIds, err \in BOOLEAN : StorageClosed(c, err)
  \/ \E faults \in [Keys -> (-1)..Len(streams)] :
       /\ Ops < StreamOps
       /\ CloseAllArchives(faults)

StreamSpec == Init /\ [][StreamNext]_vars

\* ------------------------------------------------------------------ claims
SameLoad(c1, c2) ==
  /\ calls[c1].load # 0 /\ calls[c2].load # 0 => calls[c1].load = calls[c2].load
  /\ calls[c1].st = "resolved" /\ calls[c2].st = "resolved"
       => calls[c1].result = calls[c2].result

\* C1: loadArchive(K) calls issued before an earlier one has settled share one
\* storage open (one _loadArchiveInner run) and resolve to the same handle.
C1_OneOpenPerRace ==
  \A c2 \in CallIds : \A c1 \in calls[c2].conc : SameLoad(c1, c2)

\* C2: no key is resident and loading at once.
C2_ResidentXorLoading ==
  \A k \in Keys : ~(getArchive(k) # 0 /\ isLoadingArchive(k))

\* C3: a closeArchive(K) made while a load of K is in flight does not resolve
\* before that load has settled, and leaves no resident handle of that load.
C3_CloseWaitsForLoad ==
  \A c \in CloseIds :
    closes[c].during # 0 /\ closes[c].st = "resolved"
      => /\ loads[closes[c].during].st # "opening"
         /\ archives[closes[c].key] # closes[c].during

\* the closeArchive invocations that resolve in this step
ResolvesNow(c) ==
  /\ closes'[c].st = "resolved"
  /\ c \in CloseIds => closes[c].st # "resolved"

\* C4: in the state in which a closeArchive(K) resolves, getArchive(K) is
\* absent and isLoadingArchive(K) is false.
C4_AbsentAfterClose ==
  [][\A c \in 1..Len(closes') :
       ResolvesNow(c) => \E k \in Keys : /\ k = closes'[c].key
                                          /\ getArchive(k)' = 0
                                          /\ ~isLoadingArchive(k)']_vars

Settled(c) == closes[c].st \in {"resolved", "rejected"}

\* C5: closeAllArchives() over several resident keys never rejects, resolves
\* only once every close it made has settled, and once they have, every key
\* whose close did not fail is closed and out of the registry.
C5_CloseAllIsolatesFailures ==
  \A g \in CloseAllIds :
    Cardinality(Members(g)) >= 2 =>
    /\ PromiseAll(g) # "rejected"
    /\ PromiseAll(g) = "resolved" => \A c \in Members(g) : Settled(c)
    /\ (\A c \in Members(g) : Settled(c))
         => \A c \in Members(g) :
              closes[c].st = "resolved" /\ closes[c].archive # 0
                => /\ archives[closes[c].key] # closes[c].archive
                   /\ loads[closes[c].archive].swarm = "closed"

\* an archive handle that is open: loaded, and its storage not yet closed
Open(p) == loads[p].st = "ready" /\ loads[p].storage \in {"open", "closing"}

\* C7: every open handle is the one registered for its key, so there is at
\* most one per key and closeArchive can reach it.
C7_OpenHandleIsRegistered ==
  \A p \in LoadIds : Open(p) => archives[loads[p].key] = p

\* the load p settles with a failure in this step
FailsNow(p) == loads[p].st = "opening" /\ loads'[p].st = "failed"

\* C6: when the storage reports a readiness error for load p of key K, every
\* call awaiting p (the initiator and the joiners) is rejected, K does not
\* become resident through p, the in-flight marker of K is cleared, and a
\* loadArchive(K) made next, K not being resident, starts a new load.
C6_LoadFailure ==
  [][\A p \in LoadIds :
       /\ FailsNow(p) =>
            /\ \A c \in CallIds : calls[c].load = p => calls'[c].st = "rejected"
            /\ archives' = archives
            /\ ~isLoadingArchive(loads[p].key)'
            /\ getArchive(loads[p].key)' = 0 => CallRecord(loads[p].key)'.st = "mkdirp"
       /\ loads[p].st = "failed" => getArchive(loads[p].key)' # p]_vars

\* a failed load with its initiator and a joiner rejected, and a later call
\* for the same key that started a load of its own
C6_Witness ==
  \E p \in LoadIds, c1, c2, c3 \in CallIds :
    /\ loads[p].st = "failed"
    /\ c1 < c2 /\ c2 < c3
    /\ calls[c1].load = p /\ calls[c1].st = "rejected" /\ ~calls[c1].joined
    /\ calls[c2].load = p /\ calls[c2].st = "rejected" /\ calls[c2].joined
    /\ calls[c3].key = loads[p].key /\ calls[c3].load \notin {0, p}

InStreams(s) ==
  \E i \in 1..Len(loads[streams[s].archive].replicationStreams) :
    loads[streams[s].archive].replicationStreams[i] = s

\* the handshake timer of stream s fires in this step
FiresNow(s) == streams[s].TO = "armed" /\ streams'[s].TO = "fired"

\* C8: the handshake timer of a stream fires only if no handshake was seen;
\* the stream is then destroyed, with the timeout error if it was still
\* open, and once its close event has fired it is not in replicationStreams.
C8_HandshakeTimeout ==
  [][\A s \in StreamIds :
       /\ FiresNow(s) =>
            /\ ~streams[s].handshake
            /\ streams'[s].destroyed
            /\ ~streams[s].destroyed => streams'[s].by = "timeout"
       /\ streams[s].by = "timeout" /\ streams'[s].closed => ~InStreams(s)']_vars

\* a stream destroyed by the handshake timeout, closed and out of the list,
\* next to a stream that is still open
C8_Witness ==
  \E s, t \in StreamIds :
    /\ streams[s].by = "timeout" /\ streams[s].closed /\ ~InStreams(s)
    /\ streams[s].archive = streams[t].archive
    /\ ~streams[t].destroyed /\ InStreams(t)

\* C9: a stream whose handshake was seen is never destroyed by the handshake
\* timer: the timer does not fire for it.
C9_HandshakeCancelsTimeout ==
  \A s \in StreamIds :
    streams[s].handshake => streams[s].TO # "fired" /\ streams[s].by # "timeout"

\* a stream whose handshake was seen, still open with its timer cancelled
C9_Witness ==
  \E s \in StreamIds :
    /\ streams[s].handshake /\ streams[s].TO = "cleared"
    /\ ~streams[s].destroyed /\ InStreams(s)

\* number of times stream s is in the list rs
Count(rs, s) == Cardinality({i \in 1..Len(rs) : rs[i] = s})

\* C10: a stream is in its archive's replicationStreams, exactly once, while
\* its close event has not fired, and in no list otherwise.
C10_StreamsAreTheOpenOnes ==
  \A s \in StreamIds : \A p \in LoadIds :
    Count(loads[p].replicationStreams, s) =
      IF streams[s].archive = p /\ ~streams[s].closed THEN 1 ELSE 0

\* closeArchive has destroyed one stream, which has closed and left the list,
\* after a stream had ended on the peer's side and one had timed out
C10_Witness ==
  \E s, t, u \in StreamIds :
    /\ streams[s].by = "closeArchive" /\ streams[s].closed /\ ~InStreams(s)
    /\ streams[t].by = "peer" /\ streams[t].closed /\ ~InStreams(t)
    /\ streams[u].by = "timeout"
\* ---------------------------------------------------------------- C11
\* the operations inside their `users:update` critical section
InUpdate == {o \in OpIds : ops[o].pc \in {"getByID", "waitWrite", "put", "updateIndexes"}}

\* what one operation does to a user record
Apply(userRecord, op) ==
  IF op.kind = "addArchive" THEN AddTo(userRecord, op.key, op.name)
  ELSE IF FindIndex(userRecord.archives, op.key) = 0 THEN userRecord
  ELSE RemoveFrom(userRecord, op.key)

\* the record left by the operations of order, run one after the other
RECURSIVE Replay(_, _)
Replay(userRecord, order) ==
  IF order = <<>> THEN userRecord
  ELSE Replay(Apply(userRecord, ops[Head(order)]), Tail(order))

\* the calls made for user u, in the order the lock let them in
Entered(u) == LockOf(locks, <<"users:update", u>>).grants

\* C11: the fetch-modify-put sequences of two addArchive / removeArchive
\* calls for the same userId never overlap, and once all the calls for a user
\* have completed the stored record is the one they leave when run one after
\* the other, so it reflects every change.
C11_UpdatesAreSerialized ==
  /\ \A o1, o2 \in InUpdate : ops[o1].userId = ops[o2].userId => o1 = o2
  /\ \A u \in Users :
       (\A o \in OpIds : ops[o].userId = u => ops[o].pc = "done")
         => accountsDB[u] = Replay(defaults(u), Entered(u))

\* two calls for the same user, the second made while the first held the
\* lock, have both completed and both archives are in the stored record
C11_Witness ==
  \E o1, o2 \in OpIds :
    /\ o1 < o2
    /\ ops[o1].userId = ops[o2].userId
    /\ ops[o1].kind = "addArchive" /\ ops[o2].kind = "addArchive"
    /\ ops[o1].key # ops[o2].key
    /\ ops[o1].pc = "done" /\ ops[o2].pc = "done"
    /\ ops[o2].behind = 1
    /\ FindIndex(accountsDB[ops[o1].userId].archives, ops[o1].key) # 0
    /\ FindIndex(accountsDB[ops[o1].userId].archives, ops[o2].key) # 0

\* calls for different users inside their critical sections at the same time
DifferentUsersOverlap ==
  \E o1, o2 \in InUpdate : ops[o1].userId # ops[o2].userId

\* ---------------------------------------------------------------- C12
\* C12: each keyed lock is granted in arrival order: the operations that have
\* entered the critical section of a key are the first ones that asked for
\* it, in the order in which they asked.
C12_GrantedInArrivalOrder ==
  \A key \in DOMAIN locks :
    /\ Len(locks[key].grants) <= Len(locks[key].requests)
    /\ \A i \in 1..Len(locks[key].grants) :
         locks[key].grants[i] = locks[key].requests[i]

\* an operation that queued up behind another waiter has entered its
\* critical section
C12_Witness ==
  \E key \in DOMAIN locks : \E i \in 1..Len(locks[key].grants) :
    ops[locks[key].grants[i]].behind = 2

\* ---------------------------------------------------------------- C13
\* the swarm of archive p logs an error in this step
SwarmErrorNow(p) == loads'[p].swarmErrors > loads[p].swarmErrors

\* the peer of stream s ends the connection in this step, with or without a
\* transport error
PeerEndsNow(s) == streams[s].by = "none" /\ streams'[s].by = "peer"

\* C13: a swarm error or a transport error on a connection of archive K
\* changes neither the archive handle nor the registry nor the result of any
\* loadArchive call, so the load of K stays resolved; and a resident key
\* leaves the registry only in a step in which a closeArchive of it resolves.
C13_SwarmErrorsAreNotFatal ==
  [][/\ \A p \in LoadIds :
          SwarmErrorNow(p) =>
            /\ loads' = [loads EXCEPT ![p].swarmErrors = @ + 1]
            /\ loads'[p].st = "ready"
            /\ archives' = archives /\ loadPromises' = loadPromises
            /\ calls' = calls /\ streams' = streams
     /\ \A s \in StreamIds :
          PeerEndsNow(s) =>
            /\ archives' = archives /\ loadPromises' = loadPromises
            /\ calls' = calls
            /\ loads'[streams[s].archive].st = loads[streams[s].archive].st
     /\ \A k \in Keys :
          archives[k] # 0 /\ archives'[k] = 0 =>
            \E c \in CloseIds : closes[c].key = k /\ ResolvesNow(c)]_vars

\* a resident archive whose swarm has logged an error
C13_Witness ==
  \E p \in LoadIds :
    /\ loads[p].swarmErrors > 0
    /\ archives[loads[p].key] = p
    /\ \E c \in CallIds : calls[c].st = "resolved" /\ calls[c].result = p

\* ---------------------------------------------------------------- C14
\* C14: a closeArchive(K) made while K is not resident resolves at once and
\* changes no stream, no archive handle (so no swarm and no storage is
\* closed), and neither archives nor loadPromises. A second close in
\* sequence, made once the first has taken K out of archives, is such a call.
C14_CloseOfAbsentKeyIsNoOp ==
  [][\A c \in (Len(closes) + 1)..Len(closes') :
       archives[closes'[c].key] = 0 =>
         /\ closes'[c].st = "resolved"
         /\ closes'[c].archive = 0
         /\ streams' = streams
         /\ loads' = loads
         /\ archives' = archives
         /\ loadPromises' = loadPromises]_vars

\* K was closed, and a second closeArchive(K) made after that found it absent
\* and has resolved
C14_Witness ==
  \E c1, c2 \in CloseIds :
    /\ c1 < c2
    /\ closes[c1].key = closes[c2].key
    /\ closes[c1].archive # 0 /\ closes[c1].st = "resolved"
    /\ closes[c2].archive = 0 /\ closes[c2].st = "resolved"
    /\ archives[closes[c1].key] = 0
    /\ loads[closes[c1].archive].storageCloses = 1

\* ---------------------------------------------------------------- C15
\* C15: at startup loadArchive is called for the records of archivesDB in
\* list() order, one call per record emitted; while records remain the next
\* one is emitted whatever became of the loads started so far, and a call
\* that has not settled can still get past mkdirp and past the storage open
\* when another call has failed.
C15_StartupLoadsEveryRecord ==
  /\ Len(calls) = listPos
  /\ \A i \in 1..listPos : calls[i].key = Listed[i]
  /\ listPos < Len(Listed) => ENABLED ListData
  /\ \A c \in CallIds :
       /\ calls[c].st = "mkdirp" => ENABLED MkdirpDone(c)
       /\ calls[c].st = "pending" => ENABLED LoadReady(calls[c].load)

\* every record was emitted, the load of the first one failed and the load
\* of the second one succeeded
C15_Witness ==
  /\ listPos = Len(Listed)
  /\ calls[1].st = "rejected"
  /\ calls[2].st = "resolved"
  /\ archives[calls[2].key] = calls[2].result
  /\ archives[calls[1].key] = 0

\* ---------------------------------------------------------------- C16
\* C16: a loadArchive(K) made while K is resident resolves in the same step
\* with the resident handle, starts no mkdirp and no _loadArchiveInner run
\* (no archive is constructed, no swarm joined), and leaves archives and
\* loadPromises unchanged. getArchive and isLoadingArchive are values of the
\* state and change nothing.
C16_ResidentLoadIsPure ==
  [][\A c \in (Len(calls) + 1)..Len(calls') :
       archives[calls'[c].key] # 0 =>
         /\ calls'[c].st = "resolved"
         /\ calls'[c].result = getArchive(calls'[c].key)
         /\ calls'[c].load = 0
         /\ loads' = loads
         /\ archives' = archives
         /\ loadPromises' = loadPromises
         /\ streams' = streams]_vars

\* a loadArchive(K) made while K was resident has returned the handle that
\* an earlier call loaded
C16_Witness ==
  \E c1, c2 \in CallIds :
    /\ c1 < c2
    /\ calls[c1].key = calls[c2].key
    /\ calls[c1].load # 0 /\ calls[c1].st = "resolved"
    /\ calls[c2].load = 0 /\ calls[c2].st = "resolved"
    /\ calls[c2].result = calls[c1].result
    /\ Len(loads) = 1

\* ---------------------------------------------------------------- C17
\* the closeArchive invocations made in this step that got as far as waiting
\* for the storage close
StartedNow == {c \in (Len(closes) + 1)..Len(closes') :
                 closes'[c].archive # 0 /\ closes'[c].st = "awaitClose"}

\* C17: a closeArchive(K) on a resident key that reaches its await has
\* destroyed every stream that was in replicationStreams, has closed the
\* swarm, has started the storage close and has left K in archives; K leaves
\* archives only in a step that completes the storage close of its handle.
C17_CloseOrder ==
  [][/\ \A c \in StartedNow :
          LET h == closes'[c].archive IN
          /\ \A i \in 1..Len(loads[h].replicationStreams) :
               streams'[loads[h].replicationStreams[i]].destroyed
          /\ loads'[h].swarm = "closed"
          /\ loads'[h].storage = "closing"
          /\ archives'[closes'[c].key] = h
     /\ \A k \in Keys :
          archives[k] # 0 /\ archives'[k] = 0 =>
            /\ loads[archives[k]].storage = "closing"
            /\ loads'[archives[k]].storage \in {"closed", "closeError"}]_vars

\* ---------------------------------------------------------------- C18
\* the close event of stream s, destroyed by its handshake timer, fires in
\* this step
TimedOutClosesNow(s) ==
  streams'[s].by = "timeout" /\ ~streams[s].closed /\ streams'[s].closed

\* C18: the steps of a handshake timeout on stream s (the timer firing and
\* the close event of s) change no other stream, keep every other stream of
\* the handle in replicationStreams, change nothing of the handle but that
\* list, and leave archives and loadPromises unchanged.
C18_TimeoutIsLocal ==
  [][\A s \in StreamIds :
       FiresNow(s) \/ TimedOutClosesNow(s) =>
         /\ \A t \in StreamIds \ {s} :
              /\ streams'[t] = streams[t]
              /\ InStreams(t) => InStreams(t)'
         /\ loads' = [loads EXCEPT ![streams[s].archive].replicationStreams =
                                      loads'[streams[s].archive].replicationStreams]
         /\ archives' = archives
         /\ loadPromises' = loadPromises]_vars

\* a stream timed out and is closed and out of the list while another stream
\* of the same resident handle is still open and in the list
C18_Witness ==
  \E s, t \in StreamIds :
    /\ s # t
    /\ streams[s].archive = streams[t].archive
    /\ streams[s].by = "timeout" /\ streams[s].closed /\ ~InStreams(s)
    /\ ~streams[t].destroyed /\ InStreams(t)
    /\ archives[loads[streams[s].archive].key] = streams[s].archive

\* ---------------------------------------------------------------- C19
\* C19: isLoadingArchive(K) is true exactly in the states in which some
\* loadArchive(K) call has started a load and has not settled.
C19_IsLoadingIsExact ==
  \A k \in Keys :
    isLoadingArchive(k) <=> \E c \in CallIds : calls[c].key = k /\ Unsettled(c)

\* ---------------------------------------------------------------- C20
\* the handle is being torn down: its swarm is closed and its storage close
\* has been started
Closing(p) == loads[p].swarm = "closed" /\ loads[p].storage = "closing"

\* C20: getArchive(K) never gives a handle that is being torn down, and no
\* loadArchive(K) call was handed one as the resident handle.
C20_ClosingHandleIsNotResident ==
  /\ \A k \in Keys : getArchive(k) # 0 => ~Closing(getArchive(k))
  /\ \A c \in CallIds : ~calls[c].closing

\* ---------------------------------------------------------------- C21
\* C21: swarm.close() and archive.close() are each called at most once on a
\* handle, whatever closeArchive and closeAllArchives calls overlap.
C21_ClosedAtMostOnce ==
  \A p \in LoadIds : loads[p].swarmCloses <= 1 /\ loads[p].storageCloses <= 1

\* ---------------------------------------------------------------- C23
\* the operation has settled
Finished(o) == ops[o].pc \in {"done", "rejected"}

\* a lock is held only by an operation that is still inside the critical
\* section, and only operations suspended in lock() wait for one
LocksAreOwned ==
  \A key \in DOMAIN locks :
    /\ locks[key].acquired =>
         ops[Holder(locks, key)].pc \in
           IF key[1] = "users:update"
             THEN {"getByID", "waitWrite", "put", "updateIndexes"}
             ELSE {"put", "updateIndexes", "del", "removeIndexes"}
    /\ \A i \in 1..Len(locks[key].waiting) :
         /\ locks[key].acquired
         /\ ops[locks[key].waiting[i]].pc \in {"waitUpdate", "waitWrite"}

\* every call made has settled and every lock is free
Quiet ==
  /\ \A o \in OpIds : Finished(o)
  /\ \A key \in DOMAIN locks : ~locks[key].acquired /\ locks[key].waiting = <<>>

\* C23: no settled operation holds a lock, on any path, and when every
\* database operation calls back the calls all settle and the locks all end
\* up free: taking 'users:write' inside 'users:update' blocks nothing for
\* good.
C23_LocksAreReleased == []LocksAreOwned /\ <>[]Quiet

\* a call failed on a database operation while a second call was waiting for
\* its lock; the second call has completed and every lock is free
C23_Witness ==
  /\ Quiet
  /\ \E o1, o2 \in OpIds :
       /\ ops[o1].kind \in {"addArchive", "removeArchive"}
       /\ ops[o1].pc = "rejected"
       /\ ops[o2].behind = 1
       /\ ops[o2].pc = "done"

\* ---------------------------------------------------------------- C22
\* what one operation, UsersDB's or the admin API's, does to a user record
Effect(userRecord, op) ==
  IF op.kind = "updateUser" THEN Update(userRecord, op.body)
  ELSE IF op.kind = "suspendUser" THEN Suspend(userRecord)
  ELSE IF op.kind = "unsuspendUser" THEN Unsuspend(userRecord)
  ELSE Apply(userRecord, op)

\* the record left by the operations of order, run one after the other
RECURSIVE ReplayAll(_, _)
ReplayAll(userRecord, order) ==
  IF order = <<>> THEN userRecord
  ELSE ReplayAll(Effect(userRecord, ops[Head(order)]), Tail(order))

\* the orders in which the operations of S can be run one after the other
Orders(S) ==
  {order \in [1..Cardinality(S) -> S] :
     \A i, j \in 1..Cardinality(S) : order[i] = order[j] => i = j}

\* C22: once the admin and addArchive / removeArchive calls made for a user
\* have all completed, the stored record is one that the calls leave when run
\* one after the other in some order, so it reflects the change of each.
C22_NoLostUpdate ==
  \A u \in Users :
    LET S == {o \in OpIds : ops[o].userId = u} IN
    (\A o \in S : ops[o].pc = "done")
      => \E order \in Orders(S) : accountsDB[u] = ReplayAll(defaults(u), order)

====
